---- MODULE Spec2Model ----
(***************************************************************************)
(* Model of facial_analysis.py: the metric extractor (extract_metrics),    *)
(* the ideal-range report (print_report over IDEAL) and the pipeline       *)
(* (analyze).                                                              *)
(*                                                                         *)
(* Numbers.  The program computes in IEEE doubles; the model computes in   *)
(* exact fixed-point decimals:                                             *)
(*   - a landmark is a pair of whole-pixel coordinates (pt.x * w, pt.y*h); *)
(*     px returns it in half-pixels so that the midpoints the code takes   *)
(*     stay integral;                                                      *)
(*   - lengths are in centi-pixels (cpx, 1/100 px), square roots floored;  *)
(*   - a field of FacialMetrics is a decimal [m |-> mantissa, e |-> exp],  *)
(*     worth m * 10^e tenths (fields rounded to 1 decimal) or thousandths  *)
(*     (fields rounded to 3 decimals). e > 0 only for a quotient whose     *)
(*     denominator is the bare 1e-9 guard;                                 *)
(*   - round(x, n) is round-half-to-even on the exact value;               *)
(*   - a division by zero yields ZeroDivisionError, as in Python.          *)
(* Binary representation error of doubles (about 1e-16 relative) is below  *)
(* the resolution of the model.                                            *)
(***************************************************************************)
EXTENDS Integers, Sequences, FiniteSets

\* ------------------------------------------------------------------------
\* Bounds of the model (not program constants)
\* ------------------------------------------------------------------------

\* landmark perturbations range over -MaxShift .. MaxShift pixels
MaxShift == 3

\* scale factors 0 .. MaxFactor applied to the bilateral vertical offsets
MaxFactor == 3

\* ------------------------------------------------------------------------
\* Landmark keys (LM) and points
\* ------------------------------------------------------------------------

LM ==
  { "chin", "forehead_top", "jaw_left", "jaw_right", "glabela", "nasal_base",
    "eye_left_inner", "eye_left_outer", "eye_right_inner", "eye_right_outer",
    "eye_left_top", "eye_left_bot", "eye_right_top", "eye_right_bot",
    "brow_left_peak", "brow_right_peak", "nasal_tip", "ala_left", "ala_right",
    "lip_top", "lip_bot", "lip_left", "lip_right", "cupid_left", "cupid_right",
    "mento", "malar_left", "malar_right" }

\* px: (pt.x * w, pt.y * h), in half-pixels. A landmark set holds, per key,
\* the products pt.x * w and pt.y * h in whole pixels (the normalized
\* coordinate is that number over the image width or height).
px(lm_result, key) == << 2 * lm_result[key][1], 2 * lm_result[key][2] >>

Abs(x) == IF x < 0 THEN -x ELSE x

Max(a, b) == IF a >= b THEN a ELSE b

RECURSIVE SqrtSearch(_, _, _)
SqrtSearch(n, lo, hi) ==
  IF lo >= hi THEN lo
  ELSE LET mid == (lo + hi + 1) \div 2
       IN  IF mid * mid <= n THEN SqrtSearch(n, mid, hi)
           ELSE SqrtSearch(n, lo, mid - 1)

\* floor of the square root, 0 <= n < 2^31
ISqrt(n) == SqrtSearch(n, 0, 46340)

\* squared length of b - a in squared half-pixels (exact)
Norm2(a, b) == (b[1] - a[1]) * (b[1] - a[1]) + (b[2] - a[2]) * (b[2] - a[2])

\* dist: math.hypot(b[0]-a[0], b[1]-a[1]), in cpx (1 half-pixel = 50 cpx)
dist(a, b) == ISqrt(2500 * Norm2(a, b))

\* ------------------------------------------------------------------------
\* Decimals, rounding and division
\* ------------------------------------------------------------------------

Dec(m) == [m |-> m, e |-> 0]

\* round(a / d) to the nearest integer, ties to the even one; d # 0
RoundHalfEven(a, d) ==
  LET n == IF d < 0 THEN -a ELSE a
      q == IF d < 0 THEN -d ELSE d
      k == n \div q
      r == n - k * q
  IN  IF 2 * r < q THEN k
      ELSE IF 2 * r > q THEN k + 1
      ELSE IF k % 2 = 0 THEN k ELSE k + 1

\* round(x, 1) of a length x given in cpx: tenths of a pixel
Round1(cpx) == Dec(RoundHalfEven(cpx, 10))

\* a variant that truncates instead of rounding
QuotTruncated(num, den) ==
  IF den = 0 THEN << >>
  ELSE << Dec((IF den < 0 THEN 0 - 1000 * num ELSE 1000 * num) \div Abs(den)) >>

\* round(num / den * 100, 1) in tenths of a percent: the unguarded quotients
\* of the code. The empty sequence stands for the ZeroDivisionError that
\* Python raises on a zero divisor; otherwise the sequence holds the value.
Quot(num, den) ==
  IF den = 0 THEN << >>
  ELSE << Dec(RoundHalfEven(1000 * num, den)) >>

\* a variant without the 1e-9 guard
GuardedQuot_unguarded(num, den) ==
  IF den = 0 THEN << >>
  ELSE << Dec(RoundHalfEven(1000 * num, den)) >>

\* round(num / (den + 1e-9), 3) in thousandths, and
\* round(num / (den + 1e-9) * 100, 1) in tenths, for num, den >= 0 in cpx.
\* den > 0: the guard lowers the quotient by less than the resolution of the
\* model, so an exact tie rounds down. den = 0: the quotient is num / 1e-9,
\* that is (num / 100) * 10^9 * 1000 = num * 10^10 units (0 when num = 0).
\* The result is a sequence as for Quot; the guarded divisor is never zero.
GuardedQuot(num, den) ==
  IF den > 0
  THEN LET a == 1000 * num
           k == a \div den
           r == a % den
       IN  << Dec(IF 2 * r > den THEN k + 1 ELSE k) >>
  ELSE IF num = 0 THEN << Dec(0) >>
  ELSE << [m |-> num, e |-> 10] >>

\* a variant without abs
symmetry_signed(l, r) == Quot(l - r, Max(l, r))

\* abs(l - r) / max(l, r) * 100, rounded to 1 decimal: the eye and brow
\* symmetry
symmetry(l, r) == Quot(Abs(l - r), Max(l, r))

\* ------------------------------------------------------------------------
\* extract_metrics
\* ------------------------------------------------------------------------

\* the five bilateral pairs of the global asymmetry
pairs ==
  << << "eye_left_outer", "eye_right_outer" >>,
     << "ala_left", "ala_right" >>,
     << "malar_left", "malar_right" >>,
     << "lip_left", "lip_right" >>,
     << "brow_left_peak", "brow_right_peak" >> >>

RECURSIVE SumSeq(_)
SumSeq(s) == IF s = << >> THEN 0 ELSE Head(s) + SumSeq(Tail(s))

\* a variant without abs
asym_vals_signed(lm_result) ==
  [i \in 1..Len(pairs) |->
     50 * (px(lm_result, pairs[i][1])[2] - px(lm_result, pairs[i][2])[2])]

\* asym_vals: abs(l[1] - r[1]) per pair, in cpx
asym_vals(lm_result) ==
  [i \in 1..Len(pairs) |->
     50 * Abs(px(lm_result, pairs[i][1])[2] - px(lm_result, pairs[i][2])[2])]

\* global_asym: float(np.mean(asym_vals)), in cpx (exact: the offsets are
\* multiples of 100 cpx)
global_asym(lm_result) == SumSeq(asym_vals(lm_result)) \div Len(pairs)

\* the intermediate quantities of extract_metrics, in cpx
Measures(lm_result) ==
  LET g(key) == px(lm_result, key)
      el_out == g("eye_left_outer")
      el_in  == g("eye_left_inner")
      er_in  == g("eye_right_inner")
      er_out == g("eye_right_outer")
      pupil_l == << (el_out[1] + el_in[1]) \div 2,
                    (g("eye_left_top")[2] + g("eye_left_bot")[2]) \div 2 >>
      pupil_r == << (er_out[1] + er_in[1]) \div 2,
                    (g("eye_right_top")[2] + g("eye_right_bot")[2]) \div 2 >>
      lip_mid_y == (g("lip_top")[2] + g("lip_bot")[2]) \div 2
  IN  [ face_w   |-> dist(g("jaw_left"), g("jaw_right")),
        face_h   |-> dist(g("forehead_top"), g("chin")),
        t_upper  |-> dist(g("forehead_top"), g("glabela")),
        t_middle |-> dist(g("glabela"), g("nasal_base")),
        t_lower  |-> dist(g("nasal_base"), g("chin")),
        f1       |-> 50 * (el_out[1] - g("jaw_left")[1]),
        f2       |-> dist(el_out, el_in),
        f3       |-> dist(el_in, er_in),
        f4       |-> dist(er_in, er_out),
        f5       |-> 50 * (g("jaw_right")[1] - er_out[1]),
        eye_l_w  |-> dist(el_out, el_in),
        eye_r_w  |-> dist(er_out, er_in),
        ipd      |-> dist(pupil_l, pupil_r),
        brow_l_h |-> dist(g("brow_left_peak"), el_out),
        brow_r_h |-> dist(g("brow_right_peak"), er_out),
        nas_w    |-> dist(g("ala_left"), g("ala_right")),
        nas_h    |-> dist(g("nasal_tip"), g("nasal_base")),
        lip_w    |-> dist(g("lip_left"), g("lip_right")),
        lip_h    |-> dist(g("lip_top"), g("lip_bot")),
        upper_h  |-> 50 * Abs(g("cupid_left")[2] - g("lip_top")[2]),
        lower_h  |-> 50 * Abs(g("lip_bot")[2] - lip_mid_y),
        chin_h   |-> dist(g("nasal_base"), g("chin")),
        mento_d  |-> dist(g("mento"), g("chin")),
        global_asym |-> global_asym(lm_result) ]

\* total_t: the three-segment sum
total_t(v) == v.t_upper + v.t_middle + v.t_lower

\* a variant that leaves the outer segments out of the sum
total_f_inner(v) == v.f2 + v.f3 + v.f4

\* total_f: the five-segment sum
total_f(v) == v.f1 + v.f2 + v.f3 + v.f4 + v.f5

\* extract_metrics: << record >> when it returns, << >> when it raises
\* ZeroDivisionError
extract_metrics(lm_result) ==
  LET v == Measures(lm_result)
      eye_sym  == symmetry(v.eye_l_w, v.eye_r_w)
      brow_sym == symmetry(v.brow_l_h, v.brow_r_h)
      nas_idx  == GuardedQuot(v.nas_w, v.nas_h)
      lip_idx  == GuardedQuot(v.lip_w, v.lip_h)
      ul_ratio == GuardedQuot(v.upper_h, v.lower_h)
      chin_proj == GuardedQuot(v.mento_d, v.chin_h)
      fac_idx  == GuardedQuot(v.face_h, v.face_w)
      t1 == Quot(v.t_upper, total_t(v))
      t2 == Quot(v.t_middle, total_t(v))
      t3 == Quot(v.t_lower, total_t(v))
      q1 == Quot(v.f1, total_f(v))
      q2 == Quot(v.f2, total_f(v))
      q3 == Quot(v.f3, total_f(v))
      q4 == Quot(v.f4, total_f(v))
      q5 == Quot(v.f5, total_f(v))
  IN  IF \E q \in {eye_sym, brow_sym, nas_idx, lip_idx, ul_ratio, chin_proj,
                    fac_idx, t1, t2, t3, q1, q2, q3, q4, q5} : q = << >>
      THEN << >>
      ELSE << [ face_width_px          |-> Round1(v.face_w),
                face_height_px         |-> Round1(v.face_h),
                facial_index           |-> fac_idx[1],
                third_upper_pct        |-> t1[1],
                third_middle_pct       |-> t2[1],
                third_lower_pct        |-> t3[1],
                fifth_1_pct            |-> q1[1],
                fifth_2_pct            |-> q2[1],
                fifth_3_pct            |-> q3[1],
                fifth_4_pct            |-> q4[1],
                fifth_5_pct            |-> q5[1],
                eye_left_width_px      |-> Round1(v.eye_l_w),
                eye_right_width_px     |-> Round1(v.eye_r_w),
                eye_symmetry_pct       |-> eye_sym[1],
                interpupillary_dist_px |-> Round1(v.ipd),
                brow_left_height_px    |-> Round1(v.brow_l_h),
                brow_right_height_px   |-> Round1(v.brow_r_h),
                brow_symmetry_pct      |-> brow_sym[1],
                nasal_width_px         |-> Round1(v.nas_w),
                nasal_height_px        |-> Round1(v.nas_h),
                nasal_index            |-> nas_idx[1],
                lip_width_px           |-> Round1(v.lip_w),
                lip_height_px          |-> Round1(v.lip_h),
                lip_index              |-> lip_idx[1],
                upper_lower_lip_ratio  |-> ul_ratio[1],
                chin_projection_pct    |-> chin_proj[1],
                global_asymmetry_px    |-> Round1(v.global_asym) ] >>

\* ------------------------------------------------------------------------
\* IDEAL and print_report
\* ------------------------------------------------------------------------

\* IDEAL: (ideal, tol, desc) per key, in declaration order; ideal and tol
\* in the unit of the field (thousandths for the indices, tenths for the
\* percentages and pixels); tol is << >> for None
IDEAL_TABLE ==
  << [key |-> "facial_index",          ideal |-> 1300, tol |-> << 100 >>,
      desc |-> "Indice facial (h/w)"],
     [key |-> "third_upper_pct",       ideal |-> 333,  tol |-> << 30 >>,
      desc |-> "Terco superior (%)"],
     [key |-> "third_middle_pct",      ideal |-> 333,  tol |-> << 30 >>,
      desc |-> "Terco medio (%)"],
     [key |-> "third_lower_pct",       ideal |-> 333,  tol |-> << 30 >>,
      desc |-> "Terco inferior (%)"],
     [key |-> "fifth_3_pct",           ideal |-> 200,  tol |-> << 20 >>,
      desc |-> "Quinto central (%)"],
     [key |-> "eye_symmetry_pct",      ideal |-> 0,    tol |-> << 50 >>,
      desc |-> "Assimetria dos olhos (%)"],
     [key |-> "brow_symmetry_pct",     ideal |-> 0,    tol |-> << 50 >>,
      desc |-> "Assimetria das sobrancelhas (%)"],
     [key |-> "nasal_index",           ideal |-> 670,  tol |-> << 100 >>,
      desc |-> "Indice nasal (w/h)"],
     [key |-> "upper_lower_lip_ratio", ideal |-> 500,  tol |-> << 100 >>,
      desc |-> "Razao labio sup/inf"],
     [key |-> "global_asymmetry_px",   ideal |-> 0,    tol |-> << >>,
      desc |-> "Assimetria global (px)"] >>

\* a variant without abs
AbsDiffLeq_signed(val, ideal, tol) ==
  IF val.e = 0 THEN val.m - ideal <= tol ELSE FALSE

\* abs(val - ideal) <= tol for a decimal val; a value with e > 0 is at
\* least 10^10 units and exceeds every ideal + tol of the table
AbsDiffLeq(val, ideal, tol) ==
  IF val.e = 0 THEN Abs(val.m - ideal) <= tol ELSE FALSE

\* the status symbol of one line of the report:
\* "within" is the check mark, "outside" the warning sign, "info" the i
Status(val, ideal, tol) ==
  IF tol # << >>
  THEN IF AbsDiffLeq(val, ideal, tol[1]) THEN "within" ELSE "outside"
  ELSE "info"

\* print_report: the lines of the ideal-range section, in the order of
\* iteration over the table
print_report(m, table) ==
  [i \in 1..Len(table) |->
     [key      |-> table[i].key,
      status   |-> Status(m[table[i].key], table[i].ideal, table[i].tol),
      measured |-> m[table[i].key],
      ideal    |-> table[i].ideal,
      desc     |-> table[i].desc]]

\* ------------------------------------------------------------------------
\* Detector outputs: the landmark sets the runs are checked on
\* ------------------------------------------------------------------------

\* a frontal, bilaterally symmetric face on a 240 x 300 image, in pixels
Template ==
  [ forehead_top    |-> << 120, 0 >>,   glabela         |-> << 120, 100 >>,
    nasal_base      |-> << 120, 200 >>, chin            |-> << 120, 300 >>,
    jaw_left        |-> << 0, 130 >>,   jaw_right       |-> << 240, 130 >>,
    eye_left_outer  |-> << 48, 120 >>,  eye_left_inner  |-> << 96, 120 >>,
    eye_right_inner |-> << 144, 120 >>, eye_right_outer |-> << 192, 120 >>,
    eye_left_top    |-> << 72, 114 >>,  eye_left_bot    |-> << 72, 126 >>,
    eye_right_top   |-> << 168, 114 >>, eye_right_bot   |-> << 168, 126 >>,
    brow_left_peak  |-> << 60, 100 >>,  brow_right_peak |-> << 180, 100 >>,
    nasal_tip       |-> << 120, 170 >>, ala_left        |-> << 100, 190 >>,
    ala_right       |-> << 140, 190 >>,
    lip_top         |-> << 120, 236 >>, lip_bot         |-> << 120, 244 >>,
    lip_left        |-> << 90, 240 >>,  lip_right       |-> << 150, 240 >>,
    cupid_left      |-> << 112, 234 >>, cupid_right     |-> << 128, 234 >>,
    mento           |-> << 120, 280 >>,
    malar_left      |-> << 40, 170 >>,  malar_right     |-> << 200, 170 >> ]

\* the same face with the head slightly rolled at the right eye
Rolled == [Template EXCEPT !.eye_right_outer = << 192, 121 >>]

Shifts == (0 - MaxShift) .. MaxShift

Moved(p, dx, dy) == << p[1] + dx, p[2] + dy >>

\* the vertical thirds vary: glabela and nasal base move
ThirdsInputs ==
  { [Template EXCEPT !.glabela = Moved(@, c, a), !.nasal_base = Moved(@, 0, b)] :
      a \in Shifts, b \in Shifts, c \in 0..MaxShift }

\* the horizontal fifths vary: the four canthi move sideways
FifthsInputs ==
  { [Template EXCEPT !.eye_left_outer  = Moved(@, a, 0),
                     !.eye_left_inner  = Moved(@, b, 0),
                     !.eye_right_inner = Moved(@, c, 0),
                     !.eye_right_outer = Moved(@, d, 0)] :
      a \in Shifts, b \in Shifts, c \in Shifts, d \in Shifts }

\* the right eye and the right brow vary
SymmetryInputs ==
  { [Template EXCEPT !.eye_right_outer = Moved(@, a, b),
                     !.brow_right_peak = Moved(@, a + c, b)] :
      a \in Shifts, b \in Shifts, c \in Shifts }

\* the right side of three bilateral pairs moves vertically
AsymInputs ==
  { [Template EXCEPT !.ala_right   = Moved(@, 0, a),
                     !.malar_right = Moved(@, 0, b),
                     !.lip_right   = Moved(@, 0, c)] :
      a \in Shifts, b \in Shifts, c \in Shifts }

\* groups of landmarks that a degenerate detection puts on one point
Groups ==
  [ thirds |-> {"forehead_top", "glabela", "nasal_base", "chin"},
    fifths |-> {"jaw_left", "jaw_right", "eye_left_outer", "eye_left_inner",
                "eye_right_inner", "eye_right_outer"},
    eyes   |-> {"eye_left_outer", "eye_left_inner",
                "eye_right_inner", "eye_right_outer"},
    brows  |-> {"brow_left_peak", "brow_right_peak",
                "eye_left_outer", "eye_right_outer"},
    jaw    |-> {"jaw_left", "jaw_right"},
    nose   |-> {"nasal_tip", "nasal_base"},
    lips   |-> {"lip_top", "lip_bot"},
    chin   |-> {"nasal_base", "chin", "mento"},
    all    |-> LM ]

\* lm with the landmarks of keys put on the topmost (then leftmost) of them
Collapsed(lm, keys) ==
  LET Before(k, j) ==
        lm[k][2] < lm[j][2] \/ (lm[k][2] = lm[j][2] /\ lm[k][1] <= lm[j][1])
      p == lm[CHOOSE k \in keys : \A j \in keys : Before(k, j)]
  IN  [k \in LM |-> IF k \in keys THEN p ELSE lm[k]]

\* coincident landmarks
DegenerateInputs ==
  { Collapsed(base, Groups[grp]) : base \in {Template, Rolled}, grp \in DOMAIN Groups }

Inputs ==
  ThirdsInputs \cup FifthsInputs \cup SymmetryInputs \cup AsymInputs
    \cup DegenerateInputs

\* ------------------------------------------------------------------------
\* analyze: one run of the pipeline
\* ------------------------------------------------------------------------

VARIABLES
  pc,        \* the position of analyze
  image,     \* << >> for None, else << [w, h] >>
  results,   \* multi_face_landmarks: << >> or << landmark set >>
  metrics,   \* the local FacialMetrics: << >> or << record >>
  ideal,     \* the module-level IDEAL table
  report,    \* the ideal-range lines print_report has printed
  stdout,    \* the other messages printed
  files,     \* the output files written
  calls,     \* how often the detector and extract_metrics were invoked
  raised,    \* the exception analyze raised, "" if none
  returned   \* the value analyze returned: << >> for None or << record >>

vars ==
  << pc, image, results, metrics, ideal, report, stdout, files, calls,
     raised, returned >>

Init ==
  /\ pc = "imread"
  /\ image = << >>
  /\ results = << >>
  /\ metrics = << >>
  /\ ideal = IDEAL_TABLE
  /\ report = << >>
  /\ stdout = << >>
  /\ files = {}
  /\ calls = [detect |-> 0, extract |-> 0]
  /\ raised = ""
  /\ returned = << >>

\* a variant that does not check the image
analyze_imread_unchecked ==
  /\ pc = "imread"
  /\ \E img \in { << >>, << [w |-> 240, h |-> 300] >> } : image' = img
  /\ pc' = "detect"
  /\ UNCHANGED << results, metrics, ideal, report, stdout, files, calls, raised, returned >>

\* image = cv2.imread(image_path); raise FileNotFoundError if it is None
analyze_imread ==
  /\ pc = "imread"
  /\ \E img \in { << >>, << [w |-> 240, h |-> 300] >> } :
       /\ image' = img
       /\ IF img = << >>
          THEN /\ raised' = "FileNotFoundError"
               /\ pc' = "raised"
          ELSE /\ raised' = raised
               /\ pc' = "detect"
  /\ UNCHANGED << results, metrics, ideal, report, stdout, files, calls, returned >>

\* results = face_mesh.process(rgb)
analyze_detect ==
  /\ pc = "detect"
  /\ \E r \in { << >> } \cup { << lm >> : lm \in Inputs } : results' = r
  /\ calls' = [calls EXCEPT !.detect = @ + 1]
  /\ pc' = "check"
  /\ UNCHANGED << image, metrics, ideal, report, stdout, files, raised, returned >>

\* a variant that prints the warning and goes on
analyze_check_no_return ==
  /\ pc = "check"
  /\ stdout' = IF results = << >>
               THEN Append(stdout, "Nenhum rosto detectado na imagem.")
               ELSE stdout
  /\ pc' = "extract"
  /\ UNCHANGED << image, results, metrics, ideal, report, files, calls, raised, returned >>

\* if not results.multi_face_landmarks: print the warning and return
analyze_check ==
  /\ pc = "check"
  /\ IF results = << >>
     THEN /\ stdout' = Append(stdout, "Nenhum rosto detectado na imagem.")
          /\ pc' = "returned"
     ELSE /\ stdout' = stdout
          /\ pc' = "extract"
  /\ UNCHANGED << image, results, metrics, ideal, report, files, calls, raised, returned >>

\* metrics = extract_metrics(lm, w, h)
analyze_extract ==
  /\ pc = "extract"
  /\ calls' = [calls EXCEPT !.extract = @ + 1]
  /\ LET m == extract_metrics(results[1])
     IN  IF m = << >>
         THEN /\ raised' = "ZeroDivisionError"
              /\ metrics' = metrics
              /\ pc' = "raised"
         ELSE /\ raised' = raised
              /\ metrics' = m
              /\ pc' = "report"
  /\ UNCHANGED << image, results, ideal, report, stdout, files, returned >>

\* a variant that works on the record itself instead of asdict's copy and
\* stores the differences in it
analyze_report_in_place ==
  /\ pc = "report"
  /\ report' = print_report(metrics[1], ideal)
  /\ metrics' = << [k \in DOMAIN metrics[1] |->
                     IF \E i \in 1..Len(ideal) : ideal[i].key = k /\ ideal[i].tol # << >>
                     THEN LET i == CHOOSE i \in 1..Len(ideal) : ideal[i].key = k
                          IN  [metrics[1][k] EXCEPT !.m = Abs(@ - ideal[i].ideal)]
                     ELSE metrics[1][k]] >>
  /\ pc' = "json"
  /\ UNCHANGED << image, results, ideal, stdout, files, calls, raised, returned >>

\* print_report(metrics)
analyze_report ==
  /\ pc = "report"
  /\ report' = print_report(metrics[1], ideal)
  /\ pc' = "json"
  /\ UNCHANGED << image, results, metrics, ideal, stdout, files, calls, raised, returned >>

\* json.dump(asdict(metrics), f) into <image>_metrics.json
analyze_json ==
  /\ pc = "json"
  /\ files' = files \cup {"_metrics.json"}
  /\ stdout' = Append(stdout, "Metricas salvas")
  /\ pc' = "annotate"
  /\ UNCHANGED << image, results, metrics, ideal, report, calls, raised, returned >>

\* cv2.imwrite(out_path, draw_annotations(image, lm, w, h))
analyze_annotate ==
  /\ pc = "annotate"
  /\ files' = files \cup {"_annotated.jpg"}
  /\ stdout' = Append(stdout, "Imagem anotada salva")
  /\ pc' = "chart"
  /\ UNCHANGED << image, results, metrics, ideal, report, calls, raised, returned >>

\* the bar charts of the thirds and fifths, plt.savefig; return metrics
analyze_chart ==
  /\ pc = "chart"
  /\ files' = files \cup {"_chart.png"}
  /\ stdout' = Append(stdout, "Grafico salvo")
  /\ returned' = metrics
  /\ pc' = "returned"
  /\ UNCHANGED << image, results, metrics, ideal, report, calls, raised >>

Next ==
  \/ analyze_imread
  \/ analyze_detect
  \/ analyze_check
  \/ analyze_extract
  \/ analyze_report
  \/ analyze_json
  \/ analyze_annotate
  \/ analyze_chart

Spec == Init /\ [][Next]_vars

\* ------------------------------------------------------------------------
\* Properties
\* ------------------------------------------------------------------------

\* the record extract_metrics returned in this run, and what it was made of
HasRecord == metrics # << >>

Rec == metrics[1]

In == Measures(results[1])

ThirdsSum == Rec.third_upper_pct.m + Rec.third_middle_pct.m + Rec.third_lower_pct.m

FifthsSum ==
  Rec.fifth_1_pct.m + Rec.fifth_2_pct.m + Rec.fifth_3_pct.m + Rec.fifth_4_pct.m
    + Rec.fifth_5_pct.m

\* C1: whenever extract_metrics returns a record, third_upper_pct +
\* third_middle_pct + third_lower_pct lies in 99.9 .. 100.1 (999 .. 1001
\* tenths).
C1_ThirdsSumTo100 ==
  HasRecord =>
    /\ \A k \in {"third_upper_pct", "third_middle_pct", "third_lower_pct"} : Rec[k].e = 0
    /\ ThirdsSum >= 999
    /\ ThirdsSum <= 1001

\* a record whose thirds are not equal and whose rounded sum is off 100.0
C1_Witness ==
  /\ HasRecord
  /\ ThirdsSum # 1000
  /\ Rec.third_upper_pct # Rec.third_lower_pct

\* C2 as stated: whenever extract_metrics returns a record, the five
\* fifth_i_pct sum to a value in 99.9 .. 100.1.
C2_FifthsSumWithinOneTenth ==
  HasRecord => (FifthsSum >= 999 /\ FifthsSum <= 1001)

\* C2 amended: whenever extract_metrics returns a record, the five
\* fifth_i_pct sum to a value in 99.8 .. 100.2.
C2_FifthsSumWithinTwoTenths ==
  HasRecord =>
    /\ \A k \in {"fifth_1_pct", "fifth_2_pct", "fifth_3_pct", "fifth_4_pct",
                 "fifth_5_pct"} : Rec[k].e = 0
    /\ FifthsSum >= 998
    /\ FifthsSum <= 1002

\* a record whose fifths sum to 99.8 or 100.2
C2_Witness ==
  /\ HasRecord
  /\ FifthsSum \in {998, 1002}

\* the squared lengths behind the compared measurements (exact)
EyeSq(lm) ==
  << Norm2(lm["eye_left_outer"], lm["eye_left_inner"]),
     Norm2(lm["eye_right_outer"], lm["eye_right_inner"]) >>

BrowSq(lm) ==
  << Norm2(lm["brow_left_peak"], lm["eye_left_outer"]),
     Norm2(lm["brow_right_peak"], lm["eye_right_outer"]) >>

ZeroDenominator(v) ==
  \/ v.t_upper + v.t_middle + v.t_lower = 0
  \/ v.f1 + v.f2 + v.f3 + v.f4 + v.f5 = 0
  \/ Max(v.eye_l_w, v.eye_r_w) = 0
  \/ Max(v.brow_l_h, v.brow_r_h) = 0
  \/ v.nas_h = 0
  \/ v.lip_h = 0
  \/ v.lower_h = 0
  \/ v.chin_h = 0
  \/ v.face_w = 0

\* C4: once extract_metrics has run on a landmark set with a zero
\* denominator, no error was raised and a complete record was returned.
C4_DegenerateRecovered ==
  (calls.extract = 1 /\ LET v == In IN ZeroDenominator(v)) =>
    /\ raised = ""
    /\ HasRecord
    /\ DOMAIN Rec = DOMAIN extract_metrics(Template)[1]

\* numerator and denominator of the four index fields
IndexTerms(v) ==
  [ facial_index          |-> << v.face_h, v.face_w >>,
    nasal_index           |-> << v.nas_w, v.nas_h >>,
    lip_index             |-> << v.lip_w, v.lip_h >>,
    upper_lower_lip_ratio |-> << v.upper_h, v.lower_h >> ]

\* C5: the divisions behind facial_index, nasal_index, lip_index and
\* upper_lower_lip_ratio never raise (a ZeroDivisionError of extract_metrics
\* always comes from one of the four unguarded denominators), and in a
\* returned record each of the four is a finite number: with a positive
\* denominator it is numerator / denominator to within half a thousandth,
\* with a zero denominator and a positive numerator it is numerator / 1e-9,
\* and 0 / 0 gives 0.
C5_IndicesFinite ==
  /\ raised = "ZeroDivisionError" =>
       LET v == In
       IN  \/ v.t_upper + v.t_middle + v.t_lower = 0
           \/ v.f1 + v.f2 + v.f3 + v.f4 + v.f5 = 0
           \/ Max(v.eye_l_w, v.eye_r_w) = 0
           \/ Max(v.brow_l_h, v.brow_r_h) = 0
  /\ HasRecord =>
       LET terms == IndexTerms(In)
       IN  \A k \in DOMAIN terms :
             LET n == terms[k][1]
                 d == terms[k][2]
                 x == Rec[k]
             IN  /\ x.m >= 0
                 /\ d > 0 => (x.e = 0 /\ 2 * Abs(1000 * n - x.m * d) <= d)
                 /\ (d = 0 /\ n > 0) => (x.e = 10 /\ x.m = n)
                 /\ (d = 0 /\ n = 0) => (x.e = 0 /\ x.m = 0)

\* a record with nasal height 0: nasal_index is width / 1e-9, the other
\* indices are ordinary quotients
C5_Witness ==
  /\ HasRecord
  /\ In.nas_h = 0
  /\ Rec.nasal_index.e = 10
  /\ Rec.facial_index.e = 0
  /\ Rec.facial_index.m > 0

Warning == "Nenhum rosto detectado na imagem."

\* C6: once the detector has run and found no face, analyze only prints the
\* warning and returns None: extract_metrics is not invoked, there are no
\* metrics, and no output file is written.
C6_NoFaceShortCircuits ==
  (calls.detect = 1 /\ results = << >>) =>
    /\ pc \in {"check", "returned"}
    /\ calls.extract = 0
    /\ metrics = << >>
    /\ report = << >>
    /\ files = {}
    /\ raised = ""
    /\ returned = << >>
    /\ pc = "returned" => stdout = << Warning >>

\* a run that returned after the detector found no face
C6_Witness ==
  /\ calls.detect = 1
  /\ results = << >>
  /\ pc = "returned"
  /\ stdout = << Warning >>

\* C7: when imread gave None, analyze has raised FileNotFoundError with the
\* detector and extract_metrics not invoked and no output file written.
C7_MissingImageFailsFast ==
  (pc # "imread" /\ image = << >>) =>
    /\ pc = "raised"
    /\ raised = "FileNotFoundError"
    /\ calls.detect = 0
    /\ calls.extract = 0
    /\ metrics = << >>
    /\ files = {}
    /\ stdout = << >>
    /\ returned = << >>

\* a run that failed on a missing image
C7_Witness ==
  /\ image = << >>
  /\ pc = "raised"
  /\ raised = "FileNotFoundError"

IdealOrder ==
  << "facial_index", "third_upper_pct", "third_middle_pct", "third_lower_pct",
     "fifth_3_pct", "eye_symmetry_pct", "brow_symmetry_pct", "nasal_index",
     "upper_lower_lip_ratio", "global_asymmetry_px" >>

\* |x - ideal| <= tol for the decimal x (a decimal with e > 0 is beyond
\* every tolerance)
WithinTolerance(x, id, tol) ==
  /\ x.e = 0
  /\ x.m - id <= tol
  /\ id - x.m <= tol

\* C8: the report holds one line per entry of IDEAL, in the declared order,
\* with the measured value of the record; its status is "within" exactly
\* when a tolerance is defined and |measured - ideal| <= tolerance,
\* "outside" exactly when a tolerance is defined and the difference is
\* larger, and "info" exactly when no tolerance is defined (only
\* global_asymmetry_px).
C8_ReportClassifies ==
  report # << >> =>
    /\ Len(report) = Len(IdealOrder)
    /\ \A i \in 1..Len(IdealOrder) :
         LET line == report[i]
             def  == IDEAL_TABLE[i]
         IN  /\ line.key = IdealOrder[i]
             /\ def.key = IdealOrder[i]
             /\ line.measured = Rec[line.key]
             /\ line.ideal = def.ideal
             /\ line.desc = def.desc
             /\ line.status \in {"within", "outside", "info"}
             /\ (line.status = "info") <=> (def.tol = << >>)
             /\ (line.status = "info") <=> (line.key = "global_asymmetry_px")
             /\ (line.status = "within") <=>
                  (def.tol # << >> /\ WithinTolerance(line.measured, def.ideal, def.tol[1]))
             /\ (line.status = "outside") <=>
                  (def.tol # << >> /\ ~WithinTolerance(line.measured, def.ideal, def.tol[1]))

\* a report with all three statuses, one of them for a value below its
\* ideal by more than the tolerance
C8_Witness ==
  /\ report # << >>
  /\ \A st \in {"within", "outside", "info"} :
       \E i \in 1..Len(report) : report[i].status = st
  /\ \E i \in 1..Len(report) :
       /\ report[i].status = "outside"
       /\ report[i].measured.e = 0
       /\ report[i].measured.m < report[i].ideal

\* C9: in every step of a run the record is built at most once, by
\* extract_metrics from the detected landmarks, and once built it no longer
\* changes; the IDEAL table never changes; what analyze returns after the
\* chart is that record.
C9_RecordNeverMutated ==
  [][ /\ ideal' = ideal
      /\ metrics # << >> => metrics' = metrics
      /\ metrics' # metrics =>
           /\ calls.extract = 0
           /\ calls'.extract = 1
           /\ metrics' = extract_metrics(results[1])
      /\ calls'.extract <= 1
      /\ (pc = "chart" /\ pc' = "returned") => returned' = metrics
      /\ returned' # << >> => returned' = metrics'
    ]_vars

\* a successful run: report printed, the three files written, the record
\* returned
C9_Witness ==
  /\ pc = "returned"
  /\ returned # << >>
  /\ returned = metrics
  /\ report # << >>
  /\ Cardinality(files) = 3
  /\ ideal = IDEAL_TABLE

\* the vertical offset of pair i in pixels, signed and absolute
Offset(lm, i) == lm[pairs[i][2]][2] - lm[pairs[i][1]][2]

\* lm with every per-pair vertical offset multiplied by k
Scaled(lm, k) ==
  [key \in LM |->
     IF \E i \in 1..Len(pairs) : pairs[i][2] = key
     THEN LET i == CHOOSE i \in 1..Len(pairs) : pairs[i][2] = key
          IN  << lm[key][1], lm[pairs[i][1]][2] + k * Offset(lm, i) >>
     ELSE lm[key]]

\* C10: global_asymmetry_px of a returned record is the mean of the five
\* absolute vertical offsets, in tenths of a pixel; it is 0 when all five
\* offsets are 0; and the unrounded global_asym of the landmark set with
\* all offsets multiplied by k is k times that of the landmark set.
C10_GlobalAsymmetryMean ==
  /\ HasRecord =>
       /\ Rec.global_asymmetry_px.e = 0
       /\ 5 * Rec.global_asymmetry_px.m
            = 10 * (Abs(Offset(results[1], 1)) + Abs(Offset(results[1], 2))
                     + Abs(Offset(results[1], 3)) + Abs(Offset(results[1], 4))
                     + Abs(Offset(results[1], 5)))
       /\ (\A i \in 1..5 : Offset(results[1], i) = 0) => Rec.global_asymmetry_px.m = 0
  /\ results # << >> =>
       LET unrounded == global_asym(results[1])
       IN  \A k \in 0..MaxFactor :
             global_asym(Scaled(results[1], k)) = k * unrounded

\* a record of a face with offsets of both signs and a positive asymmetry
C10_Witness ==
  /\ HasRecord
  /\ Rec.global_asymmetry_px.m > 0
  /\ \E i, j \in 1..5 : Offset(results[1], i) > 0 /\ Offset(results[1], j) < 0
  /\ global_asym(Scaled(results[1], MaxFactor)) > global_asym(results[1])

====
